---- MODULE Spec2Model ----
(***************************************************************************)
(* mpipe-plus: a pipeline of stages, each a pool of workers reading one    *)
(* input tube and writing to the input tubes of the downstream stages.     *)
(* The model follows mpipe_plus/Pipeline.py, Stage.py, Worker.py,          *)
(* SimpleStage.py, work_exception.py and the tubes of src/TubeQ.py.        *)
(*                                                                         *)
(* A tube is an atomic FIFO of envelopes ((task_index, payload), count).   *)
(* An envelope is a record: kind is the payload's Python type              *)
(* ("Data" a task, "Stop" StopIteration, "Fail" WorkException, "Exc" any   *)
(* other Exception), idx the task index, val the task value, cnt the       *)
(* relay count; a WorkException carries exc (the original exception),      *)
(* stage (str(worker)) and item (the work item).                           *)
(***************************************************************************)
EXTENDS Integers, Sequences, FiniteSets, TLC

\* Bounds of the model.
MaxInputs == 2
MaxWorkers == 2
MaxBacklog == 1
MaxPuts == 3
MaxLinks == 3
MaxArrivals == 3
MaxRing == 3
MaxTasks == 3

\* Stage identifiers (the stage's name) and tube identifiers: the input tube
\* of stage s is tube s, the output tube Stage.build makes for a stage that
\* has none is tube NumStages + s.
Stages == {1, 2, 3}
NumStages == Cardinality(Stages)
Tubes == 1..(2 * NumStages)
InputTube(s) == s
LeafTube(s) == NumStages + s
Vals == {1, 2}
NoItem == -1
Main == "main"
NoThread == ""
Threads == {Main, "p1", "p2"}

Env(k, i, v, c) == [kind |-> k, idx |-> i, val |-> v, cnt |-> c,
                    exc |-> "", stage |-> 0, item |-> NoItem]
NoEnv == Env("None", 0, 0, 0)

\* WorkException(orig_exc, stage, work_item) as the payload of task index i.
WorkException(i, e, s, it) == [kind |-> "Fail", idx |-> i, val |-> 0, cnt |-> 0,
                               exc |-> e, stage |-> s, item |-> it]
\* Any other exception object as a payload.
ExcEnv(i, e, c) == [kind |-> "Exc", idx |-> i, val |-> 0, cnt |-> c,
                    exc |-> e, stage |-> 0, item |-> NoItem]

\* The task functions of test/chain.py: increment, double, echo.
StageFn(s, v) == IF s = 1 THEN v + 1 ELSE IF s = 2 THEN v * 2 ELSE v

VARIABLES
  next_stages,     \* Stage._next_stages: stage -> sequence of stages
  output_tubes,    \* Stage._output_tubes: stage -> sequence of tubes
  num_worker,      \* Stage._num_worker
  spawned,         \* stage -> number of Worker.process tasks given to its pools
  maxsize,         \* tube -> capacity of its queue, 0 for no bound
  multi_process,   \* Stage.multi_process: process pool (TRUE) or thread pool
  available,       \* Stage.available_output_tubes
  output_stages,   \* Pipeline._output_stages
  task_index,      \* Pipeline.task_index
  lock,            \* Pipeline.lock: the thread holding it, or NoThread
  tube,            \* tube -> the envelopes queued on it
  closed,          \* tubes whose shared handle has been closed
  wpc,             \* worker -> position in Worker.run
  wenv,            \* worker -> the envelope it holds (fetched, or to put)
  wj,              \* worker -> position in putResult's loop over the output tubes
  wafter,          \* worker -> what follows the put under way
  whandler,        \* worker -> TRUE inside run's "except Exception" handler
  pc,              \* thread -> position of the caller's thread
  ptok,            \* thread -> the task it is putting with Pipeline.put
  inputs,          \* the inputs given to Pipeline.run
  ordered,         \* run's ordered_results
  ci,              \* number of run's puts issued so far
  gi,              \* Pipeline.get: position in _output_stages
  gsnap,           \* Stage.get: the tubes of its snapshot still to read
  current,         \* results_ordered: current
  cache,           \* results_ordered: cache
  yielded,         \* the values the generator has yielded, in order
  cexc,            \* the exception raised to the caller, NoEnv if none
  failTask,        \* <<stage, task index>> on which the user's doTask raises
  putlog,          \* history: tube -> every envelope ever put on it, in order
  seenStop,        \* history: worker -> number of Stop envelopes it fetched
  disposed,        \* history: worker -> number of doDispose calls
  leaflog,         \* history: the values put on leaf output tubes, in order
  disable_result,  \* Stage._disable_result
  noneTask,        \* <<stage, task index>> for which the user's doTask returns None
  in_lock,         \* OrderedWorker k -> its _lock_prev_input is held
  out_lock         \* OrderedWorker k -> its _lock_prev_output is held

stageVars == <<next_stages, output_tubes, num_worker, spawned, maxsize, multi_process,
               disable_result, noneTask, in_lock, out_lock>>
pipeVars == <<available, output_stages>>
workerVars == <<wpc, wenv, wj, wafter, whandler, seenStop, disposed>>
genVars == <<gi, gsnap, current, cache, yielded>>
callVars == <<pc, ptok, inputs, ordered, ci, cexc>>
vars == <<next_stages, output_tubes, num_worker, spawned, maxsize, multi_process,
          available, output_stages, task_index, lock, tube, closed,
          wpc, wenv, wj, wafter, whandler, pc, ptok, inputs, ordered, ci,
          gi, gsnap, current, cache, yielded, cexc, failTask, putlog,
          seenStop, disposed, leaflog, disable_result, noneTask, in_lock, out_lock>>

(***************************************************************************)
(* Graph construction: Stage.link, Stage.get_leaves, Stage.build.          *)
(***************************************************************************)
NoLinks == [ns |-> [s \in Stages |-> <<>>], ot |-> [s \in Stages |-> <<>>]]

\* a.link(b): rejects b = a, else appends b's input tube and b.
Link(g, a, b) ==
  IF a = b THEN g
  ELSE [ns |-> [g.ns EXCEPT ![a] = Append(@, b)],
        ot |-> [g.ot EXCEPT ![a] = Append(@, InputTube(b))]]

RECURSIVE get_leaves(_, _)
RECURSIVE LeavesOfAll(_, _)
get_leaves(ns, s) ==
  IF ns[s] = <<>> THEN <<s>> ELSE LeavesOfAll(ns, ns[s])
LeavesOfAll(ns, seq) ==
  IF seq = <<>> THEN <<>>
  ELSE get_leaves(ns, Head(seq)) \o LeavesOfAll(ns, Tail(seq))

\* build on stage s of a state b = [ot, avail, pool]: make the output tube of
\* a stage that has none, give num_worker tasks to a new pool, build every
\* next stage, then set available_output_tubes.
RECURSIVE Build(_, _, _, _)
RECURSIVE BuildAll(_, _, _, _)
Build(b, ns, nw, s) ==
  LET ot1 == IF b.ot[s] = <<>> THEN [b.ot EXCEPT ![s] = <<LeafTube(s)>>] ELSE b.ot
      b1 == [b EXCEPT !.ot = ot1, !.pool[s] = @ + nw[s]]
      b2 == BuildAll(b1, ns, nw, ns[s])
  IN [b2 EXCEPT !.avail[s] = b2.ot[s]]
BuildAll(b, ns, nw, seq) ==
  IF seq = <<>> THEN b
  ELSE BuildAll(Build(b, ns, nw, Head(seq)), ns, nw, Tail(seq))

Root == 1
Unbuilt(g) == [ot |-> g.ot, avail |-> [s \in Stages |-> <<>>],
               pool |-> [s \in Stages |-> 0]]

\* The graphs the pipelines are built over.
OneStage == NoLinks
Chain == Link(NoLinks, 1, 2)
Fork == Link(Link(NoLinks, 1, 2), 1, 3)
Chain3 == Link(Link(NoLinks, 1, 2), 2, 3)
FanIn == Link(Link(Link(NoLinks, 1, 2), 1, 3), 2, 3)

(***************************************************************************)
(* The state after Pipeline(root) has been constructed over graph g and    *)
(* run(inputs, ordered_results) has been called.                           *)
(***************************************************************************)
NoFail == <<0, 0>>
WorkersOf(sp) == UNION {{<<s, k>> : k \in 1..sp[s]} : s \in Stages}
Workers == WorkersOf(spawned)
Reachable(sp) == {s \in Stages : sp[s] > 0}
RangeOf(seq) == {seq[i] : i \in 1..Len(seq)}
SeqsUpTo(S, n) == UNION {[1..m -> S] : m \in 0..n}

Token(k, v) == Env(k, 0, v, 0)
\* A KeyboardInterrupt object given to put as a task.
CancelObj == -2
\* run: "for input in inputs: self.put(input)" then "self.put(StopIteration())".
RunToken(ins, i) ==
  IF i < Len(ins)
  THEN Token(IF ins[i + 1] = CancelObj THEN "Cancel" ELSE "Data", ins[i + 1])
  ELSE Token("Stop", 0)

\* Stages of Worker: there are no ring locks (OrderedWorker._link).
NoRing ==
  /\ in_lock = <<>>
  /\ out_lock = <<>>

\* Pipeline(root): the leaves, the build, task_index and the lock.
Constructed(g, nw, bl, mp, ft) ==
  LET b == Build(Unbuilt(g), g.ns, nw, Root) IN
  /\ NoRing
  /\ next_stages = g.ns
  /\ output_stages = get_leaves(g.ns, Root)
  /\ output_tubes = b.ot
  /\ available = b.avail
  /\ spawned = b.pool
  /\ num_worker = nw
  /\ maxsize = [t \in Tubes |-> IF t \in Stages THEN bl[t] ELSE 0]
  /\ multi_process = mp
  /\ task_index = 0
  /\ lock = NoThread
  /\ tube = [t \in Tubes |-> <<>>]
  /\ closed = {}
  /\ wpc = [w \in WorkersOf(b.pool) |-> "init"]
  /\ wenv = [w \in WorkersOf(b.pool) |-> NoEnv]
  /\ wj = [w \in WorkersOf(b.pool) |-> 0]
  /\ wafter = [w \in WorkersOf(b.pool) |-> ""]
  /\ whandler = [w \in WorkersOf(b.pool) |-> FALSE]
  /\ seenStop = [w \in WorkersOf(b.pool) |-> 0]
  /\ disposed = [w \in WorkersOf(b.pool) |-> 0]
  /\ gi = 0
  /\ gsnap = <<>>
  /\ current = 0
  /\ cache = <<>>
  /\ yielded = <<>>
  /\ cexc = NoEnv
  /\ failTask = ft
  /\ putlog = [t \in Tubes |-> <<>>]
  /\ leaflog = <<>>

\* Stages that put their results, running functions that return a value.
Emitting ==
  /\ disable_result = [s \in Stages |-> FALSE]
  /\ noneTask = NoFail

\* The main thread has called run(ins, ord) on the pipeline.
RunCalled(ins, ord) ==
  /\ pc = [th \in Threads |-> IF th = Main THEN "acq" ELSE "off"]
  /\ ptok = [th \in Threads |-> IF th = Main THEN RunToken(ins, 0) ELSE NoEnv]
  /\ inputs = ins
  /\ ordered = ord
  /\ ci = 0

InitPipeline(g, nw, bl, mp, ins, ord, ft) ==
  /\ Constructed(g, nw, bl, mp, ft)
  /\ Emitting
  /\ RunCalled(ins, ord)

\* num_worker of every stage the graph reaches from the root, 1 (the
\* default) for the others.
WorkerCounts(g) ==
  LET r == Reachable(Build(Unbuilt(g), g.ns, [s \in Stages |-> 1], Root).pool)
  IN {f \in [Stages -> 1..MaxWorkers] : \A s \in Stages \ r : f[s] = 1}

\* The inputs of run: up to MaxInputs values, equal or different.
Inputs == {ins \in SeqsUpTo(Vals, MaxInputs) : ins = <<>> \/ ins[1] = 2}

\* The longest of them, with different values.
FullInputs == {ins \in Inputs : Len(ins) = MaxInputs /\ ins[Len(ins)] = 1}

\* SimpleStage(max_backlog = B) for every stage, B = 0 for None.
InitOver(graphs, modes, fails, inss, ords) ==
  \E g \in graphs, mp \in modes, ins \in inss, ord \in ords, ft \in fails :
    \E nw \in WorkerCounts(g), B \in 0..MaxBacklog :
      InitPipeline(g, nw, [s \in Stages |-> B], mp, ins, ord, ft)

Init == InitOver({OneStage, Chain}, {TRUE, FALSE}, {NoFail}, Inputs, BOOLEAN)

(***************************************************************************)
(* Tubes (src/TubeQ.py, src/TubeP.py).                                     *)
(***************************************************************************)
\* Mutant: put never blocks.
CanPut_Always(t) == TRUE

\* Queue(maxsize).put blocks while the queue holds maxsize items.
CanPut(t) == maxsize[t] = 0 \/ Len(tube[t]) < maxsize[t]
\* An operation begun on a tube whose shared handle was closed raises; a get
\* that was already waiting when the handle was closed can still return an
\* envelope that was put before.
IsClosed(t) == t \in closed
Enqueue(t, e) ==
  /\ tube' = [tube EXCEPT ![t] = Append(@, e)]
  /\ putlog' = [putlog EXCEPT ![t] = Append(@, e)]
  /\ leaflog' = IF t > NumStages /\ e.kind = "Data" THEN Append(leaflog, e.val)
                ELSE leaflog
\* Tube.close: in a thread pool the workers and the caller share the tube
\* objects; a worker process closes only its own copies of them.
CloseAll(ts) == IF multi_process THEN closed ELSE closed \cup ts

(***************************************************************************)
(* Worker.run (mpipe_plus/Worker.py).                                      *)
(***************************************************************************)
NoIndex == -1
StageOf(w) == w[1]

\* The "except Exception as e" handler of run, entered with exception e:
\* putResult(-1, WorkException(e, self, None)), then close_pipes.
EnterHandler(w, e) ==
  /\ wpc' = [wpc EXCEPT ![w] = "put"]
  /\ wenv' = [wenv EXCEPT ![w] = WorkException(NoIndex, e, StageOf(w), NoItem)]
  /\ wj' = [wj EXCEPT ![w] = 1]
  /\ wafter' = [wafter EXCEPT ![w] = "close"]
  /\ whandler' = [whandler EXCEPT ![w] = TRUE]

\* The "except KeyboardInterrupt as e" handler of run: putResult(-1, e).
CancelHandler(w, e) ==
  /\ wpc' = [wpc EXCEPT ![w] = "put"]
  /\ wenv' = [wenv EXCEPT ![w] = [e EXCEPT !.idx = NoIndex, !.cnt = 0]]
  /\ wj' = [wj EXCEPT ![w] = 1]
  /\ wafter' = [wafter EXCEPT ![w] = "dispose"]
  /\ whandler' = [whandler EXCEPT ![w] = TRUE]

\* Mutant: an exception raised inside the handler ends the worker at once.
RaiseInRun_NoFinally(w, e) ==
  IF whandler[w]
  THEN /\ wpc' = [wpc EXCEPT ![w] = "done"]
       /\ wenv' = [wenv EXCEPT ![w] = NoEnv]
       /\ UNCHANGED <<wj, wafter, whandler>>
  ELSE EnterHandler(w, e)

\* An exception raised at a put or a close: caught by the handler, or, inside
\* the handler, leaving run through "finally".
RaiseInRun(w, e) ==
  IF whandler[w]
  THEN /\ wpc' = [wpc EXCEPT ![w] = "dispose"]
       /\ wenv' = [wenv EXCEPT ![w] = NoEnv]
       /\ UNCHANGED <<wj, wafter, whandler>>
  ELSE EnterHandler(w, e)

Goto(w, l, e, j, a) ==
  /\ wpc' = [wpc EXCEPT ![w] = l]
  /\ wenv' = [wenv EXCEPT ![w] = e]
  /\ wj' = [wj EXCEPT ![w] = j]
  /\ wafter' = [wafter EXCEPT ![w] = a]
  /\ UNCHANGED whandler

\* Mutant: the first worker to see the Stop passes it on.
LastToStop_First(w, count) == count >= 1

\* The relay count at which a worker passes the Stop on to the next stages.
\* Mutant: no worker ever takes itself for the last one.
LastToStop_Never(w, count) == FALSE

LastToStop(w, count) == count = num_worker[StageOf(w)]

\* failTask = <<s, AtInit>>: doInit of the workers of stage s raises.
AtInit == NoIndex

\* doInit(), inside the "try" of run.
WInit(w) ==
  /\ wpc[w] = "init"
  /\ IF failTask = <<StageOf(w), AtInit>>
     THEN EnterHandler(w, "UserError")
     ELSE /\ wpc' = [wpc EXCEPT ![w] = "fetch"]
          /\ UNCHANGED <<wenv, wj, wafter, whandler>>
  /\ UNCHANGED <<seenStop, disposed>>
  /\ UNCHANGED <<stageVars, pipeVars, genVars, callVars, task_index, lock, tube,
                 closed, failTask, putlog, leaflog>>

\* What run does with the envelope e it fetched, up to its next tube
\* operation or doTask call.
Dispatch(w, e) ==
  CASE e.kind = "Stop" ->
         /\ seenStop' = [seenStop EXCEPT ![w] = @ + 1]
         /\ IF LastToStop(w, e.cnt + 1)
            THEN Goto(w, "put", [e EXCEPT !.cnt = 0], 1, "dispose")
            ELSE Goto(w, "reput", [e EXCEPT !.cnt = e.cnt + 1], 0, "dispose")
    [] e.kind = "Fail" ->
         /\ Goto(w, "put", [e EXCEPT !.cnt = 0], 1, "close")
         /\ UNCHANGED seenStop
    [] e.kind \in {"Exc", "Cancel"} ->
         /\ Goto(w, "reput", [e EXCEPT !.cnt = e.cnt + 1], 0, "raise")
         /\ UNCHANGED seenStop
    [] OTHER ->
         /\ Goto(w, "task", e, 0, "")
         /\ UNCHANGED seenStop

\* self._tube_task_input.get(), an exception of the tube taken as task -1.
WFetch(w) ==
  LET t == InputTube(StageOf(w)) IN
  /\ wpc[w] = "fetch"
  /\ \/ /\ IsClosed(t)
        /\ Dispatch(w, ExcEnv(NoIndex, "TubeError", 0))
        /\ UNCHANGED tube
     \/ /\ tube[t] # <<>>
        /\ Dispatch(w, Head(tube[t]))
        /\ tube' = [tube EXCEPT ![t] = Tail(@)]
  /\ UNCHANGED <<stageVars, pipeVars, genVars, callVars, task_index, lock,
                 closed, failTask, putlog, leaflog, disposed>>

\* self._tube_task_input.get() raising on a tube that is open (the other end
\* of the connection gone, an envelope that cannot be unpickled).
WFetchFails(w) ==
  /\ wpc[w] = "fetch"
  /\ ~IsClosed(InputTube(StageOf(w)))
  /\ Dispatch(w, ExcEnv(NoIndex, "TransportError", 0))
  /\ UNCHANGED <<stageVars, pipeVars, genVars, callVars, task_index, lock, tube,
                 closed, failTask, putlog, leaflog, disposed>>

\* Mutant: a result is put whatever disable_result says.
Emits_Always(s, i) == TRUE

\* "if not self._disable_result and result is not None".
Emits(s, i) == ~disable_result[s] /\ noneTask # <<s, i>>

\* doTask(task), then putResult of its result or of its WorkException.
WTask(w) ==
  LET s == StageOf(w)
      e == wenv[w] IN
  /\ wpc[w] = "task"
  /\ IF failTask = <<s, e.idx>>
     THEN Goto(w, "put", WorkException(e.idx, "UserError", s, e.val), 1, "close")
     ELSE IF Emits(s, e.idx)
     THEN Goto(w, "put", Env("Data", e.idx, StageFn(s, e.val), 0), 1, "fetch")
     ELSE Goto(w, "fetch", NoEnv, 0, "")
  /\ UNCHANGED <<stageVars, pipeVars, genVars, callVars, task_index, lock, tube,
                 closed, failTask, putlog, leaflog, seenStop, disposed>>

\* One tube.put of putResult's loop over the output tubes.
WPut(w) ==
  LET s == StageOf(w)
      t == output_tubes[s][wj[w]] IN
  /\ wpc[w] = "put"
  /\ \/ /\ IsClosed(t)
        /\ RaiseInRun(w, "TubeError")
        /\ UNCHANGED <<tube, putlog, leaflog>>
     \/ /\ ~IsClosed(t)
        /\ CanPut(t)
        /\ Enqueue(t, wenv[w])
        /\ IF wj[w] < Len(output_tubes[s])
           THEN /\ wj' = [wj EXCEPT ![w] = @ + 1]
                /\ UNCHANGED <<wpc, wenv, wafter, whandler>>
           ELSE /\ wpc' = [wpc EXCEPT ![w] = wafter[w]]
                /\ wenv' = [wenv EXCEPT ![w] = NoEnv]
                /\ wj' = [wj EXCEPT ![w] = 0]
                /\ wafter' = [wafter EXCEPT ![w] = ""]
                /\ UNCHANGED whandler
  /\ UNCHANGED <<stageVars, pipeVars, genVars, callVars, task_index, lock,
                 closed, failTask, seenStop, disposed>>

\* self._tube_task_input.put(((task_index, task), count)) of a Stop that is
\* not the last, or of an exception object, which is then raised.
WReput(w) ==
  LET t == InputTube(StageOf(w)) IN
  /\ wpc[w] = "reput"
  /\ \/ /\ IsClosed(t)
        /\ RaiseInRun(w, "TubeError")
        /\ UNCHANGED <<tube, putlog, leaflog>>
     \/ /\ ~IsClosed(t)
        /\ CanPut(t)
        /\ Enqueue(t, wenv[w])
        /\ IF wafter[w] = "raise"
           THEN IF wenv[w].kind = "Cancel"
                THEN CancelHandler(w, wenv[w])
                ELSE EnterHandler(w, wenv[w].exc)
           ELSE Goto(w, "dispose", NoEnv, 0, "")
  /\ UNCHANGED <<stageVars, pipeVars, genVars, callVars, task_index, lock,
                 closed, failTask, seenStop, disposed>>

\* close_pipes().
WClose(w) ==
  LET s == StageOf(w) IN
  /\ wpc[w] = "close"
  /\ closed' = CloseAll({InputTube(s)} \cup RangeOf(output_tubes[s]))
  /\ wpc' = [wpc EXCEPT ![w] = "dispose"]
  /\ UNCHANGED <<wenv, wj, wafter, whandler, seenStop, disposed>>
  /\ UNCHANGED <<stageVars, pipeVars, genVars, callVars, task_index, lock, tube,
                 failTask, putlog, leaflog>>

\* close_pipes() when a tube's close raises.
WCloseFails(w) ==
  /\ wpc[w] = "close"
  /\ RaiseInRun(w, "CloseError")
  /\ UNCHANGED <<seenStop, disposed>>
  /\ UNCHANGED <<stageVars, pipeVars, genVars, callVars, task_index, lock, tube,
                 closed, failTask, putlog, leaflog>>

\* The "finally" of run: doDispose(); the worker's task ends.
WDispose(w) ==
  /\ wpc[w] = "dispose"
  /\ wpc' = [wpc EXCEPT ![w] = "done"]
  /\ disposed' = [disposed EXCEPT ![w] = @ + 1]
  /\ UNCHANGED <<wenv, wj, wafter, whandler, seenStop>>
  /\ UNCHANGED <<stageVars, pipeVars, genVars, callVars, task_index, lock, tube,
                 closed, failTask, putlog, leaflog>>

(***************************************************************************)
(* OrderedWorker (mpipe_plus/old/OrderedWorker.py): the workers <<Root, k>> *)
(* of a stage put together by OrderedWorker.assemble, linked in a ring.     *)
(***************************************************************************)
RingIndex(w) == w[2]
\* The worker that was given this worker's locks as its previous ones.
RingNext(k) == (k % num_worker[Root]) + 1
ringFrame == <<next_stages, output_tubes, num_worker, spawned, maxsize,
               multi_process, disable_result, noneTask>>

\* Mutant: acquire never waits.
Acquirable_Always(l, k) == TRUE

\* Lock.acquire() returns once the lock is free.
Acquirable(l, k) == ~l[k]

\* An "except" clause of run that calls putResult(e), with its lock.
OHandler(w, e, after) ==
  /\ wpc' = [wpc EXCEPT ![w] = "outacq"]
  /\ wenv' = [wenv EXCEPT ![w] = e]
  /\ wj' = [wj EXCEPT ![w] = 1]
  /\ wafter' = [wafter EXCEPT ![w] = after]
  /\ whandler' = [whandler EXCEPT ![w] = TRUE]

\* The clause that catches the exception object e raised in the loop.
OCatch(w, e) ==
  CASE e.kind = "Fail" -> OHandler(w, [e EXCEPT !.cnt = 0], "close")
    [] e.kind = "Cancel" -> OHandler(w, [e EXCEPT !.cnt = 0], "dispose")
    [] OTHER -> OHandler(w, WorkException(NoIndex, e.exc, StageOf(w), NoItem), "close")

\* An exception raised by a lock or a tube: caught by a clause of run, or,
\* inside a clause, leaving run through "finally".
ORaise(w, e) ==
  IF whandler[w]
  THEN /\ wpc' = [wpc EXCEPT ![w] = "dispose"]
       /\ wenv' = [wenv EXCEPT ![w] = NoEnv]
       /\ UNCHANGED <<wj, wafter, whandler>>
  ELSE OCatch(w, ExcEnv(NoIndex, e, 0))

\* doInit(), before the "try" of run.
OInit(w) ==
  /\ wpc[w] = "init"
  /\ wpc' = [wpc EXCEPT ![w] = "inacq"]
  /\ UNCHANGED <<wenv, wj, wafter, whandler, seenStop, disposed>>
  /\ UNCHANGED <<stageVars, pipeVars, genVars, callVars, task_index, lock, tube,
                 closed, failTask, putlog, leaflog>>

\* self._lock_prev_input.acquire().
OAcquireInput(w) ==
  /\ wpc[w] = "inacq"
  /\ Acquirable(in_lock, RingIndex(w))
  /\ in_lock' = [in_lock EXCEPT ![RingIndex(w)] = TRUE]
  /\ wpc' = [wpc EXCEPT ![w] = "fetch"]
  /\ UNCHANGED <<wenv, wj, wafter, whandler, seenStop, disposed, out_lock>>
  /\ UNCHANGED <<ringFrame, pipeVars, genVars, callVars, task_index, lock, tube,
                 closed, failTask, putlog, leaflog>>

\* What run does with the task it fetched, up to its next lock or tube
\* operation or doTask call.
ODispatch(w, e) ==
  CASE e.kind = "Stop" ->
         /\ seenStop' = [seenStop EXCEPT ![w] = @ + 1]
         /\ IF LastToStop(w, e.cnt + 1)
            THEN Goto(w, "put", [e EXCEPT !.cnt = 0], 1, "dispose")
            ELSE Goto(w, "reput", [e EXCEPT !.cnt = e.cnt + 1], 0, "dispose")
    [] e.kind \in {"Fail", "Exc", "Cancel"} ->
         /\ Goto(w, "reput", [e EXCEPT !.cnt = e.cnt + 1], 0, "raise")
         /\ UNCHANGED seenStop
    [] OTHER ->
         /\ Goto(w, "task", e, 0, "")
         /\ UNCHANGED seenStop

\* (task, count) = self._tube_task_input.get(), then
\* self._lock_next_input.release(); releasing a lock that is free raises
\* ValueError, which the inner "except" takes as the task, with count 0.
OFetch(w) ==
  LET t == InputTube(StageOf(w))
      n == RingNext(RingIndex(w)) IN
  /\ wpc[w] = "fetch"
  /\ tube[t] # <<>>
  /\ tube' = [tube EXCEPT ![t] = Tail(@)]
  /\ IF in_lock[n]
     THEN /\ in_lock' = [in_lock EXCEPT ![n] = FALSE]
          /\ ODispatch(w, Head(tube[t]))
     ELSE /\ UNCHANGED in_lock
          /\ ODispatch(w, ExcEnv(NoIndex, "LockError", 0))
  /\ UNCHANGED <<out_lock, disposed>>
  /\ UNCHANGED <<ringFrame, pipeVars, genVars, callVars, task_index, lock,
                 closed, failTask, putlog, leaflog>>

\* doTask(task): raise WorkException if it raises; putResult(result) if the
\* result is to be put; else back to the top of the loop.
OTask(w) ==
  LET s == StageOf(w)
      e == wenv[w] IN
  /\ wpc[w] = "task"
  /\ IF failTask = <<s, e.idx>>
     THEN OHandler(w, WorkException(e.idx, "UserError", s, e.val), "close")
     ELSE IF Emits(s, e.idx)
     THEN Goto(w, "outacq", Env("Data", e.idx, StageFn(s, e.val), 0), 1, "inacq")
     ELSE Goto(w, "inacq", NoEnv, 0, "")
  /\ UNCHANGED <<stageVars, pipeVars, genVars, callVars, task_index, lock, tube,
                 closed, failTask, putlog, leaflog, seenStop, disposed>>

\* putResult with lock: self._lock_prev_output.acquire().
OAcquireOutput(w) ==
  /\ wpc[w] = "outacq"
  /\ Acquirable(out_lock, RingIndex(w))
  /\ out_lock' = [out_lock EXCEPT ![RingIndex(w)] = TRUE]
  /\ wpc' = [wpc EXCEPT ![w] = "put"]
  /\ UNCHANGED <<wenv, wj, wafter, whandler, seenStop, disposed, in_lock>>
  /\ UNCHANGED <<ringFrame, pipeVars, genVars, callVars, task_index, lock, tube,
                 closed, failTask, putlog, leaflog>>

\* One tube.put of putResult's loop; after the last one, unless the call was
\* putResult(task, lock=False) of the Stop, self._lock_next_output.release().
OPut(w) ==
  LET s == StageOf(w)
      t == output_tubes[s][wj[w]]
      n == RingNext(RingIndex(w)) IN
  /\ wpc[w] = "put"
  /\ Enqueue(t, wenv[w])
  /\ IF wj[w] < Len(output_tubes[s])
     THEN /\ wj' = [wj EXCEPT ![w] = @ + 1]
          /\ UNCHANGED <<wpc, wenv, wafter, whandler, out_lock>>
     ELSE IF wenv[w].kind = "Stop" \/ out_lock[n]
     THEN /\ out_lock' = IF wenv[w].kind = "Stop" THEN out_lock
                         ELSE [out_lock EXCEPT ![n] = FALSE]
          /\ wpc' = [wpc EXCEPT ![w] = wafter[w]]
          /\ wenv' = [wenv EXCEPT ![w] = NoEnv]
          /\ wj' = [wj EXCEPT ![w] = 0]
          /\ wafter' = [wafter EXCEPT ![w] = ""]
          /\ UNCHANGED whandler
     ELSE /\ ORaise(w, "LockError")
          /\ UNCHANGED out_lock
  /\ UNCHANGED <<in_lock, seenStop, disposed>>
  /\ UNCHANGED <<ringFrame, pipeVars, genVars, callVars, task_index, lock,
                 closed, failTask>>

\* self._tube_task_input.put((task, count)) of a Stop that is not the last,
\* or of an exception object, which is then raised.
OReput(w) ==
  /\ wpc[w] = "reput"
  /\ Enqueue(InputTube(StageOf(w)), wenv[w])
  /\ IF wafter[w] = "raise"
     THEN OCatch(w, wenv[w])
     ELSE Goto(w, "dispose", NoEnv, 0, "")
  /\ UNCHANGED <<stageVars, pipeVars, genVars, callVars, task_index, lock,
                 closed, failTask, seenStop, disposed>>

\* close_pipes() in a worker process.
OClose(w) ==
  /\ wpc[w] = "close"
  /\ wpc' = [wpc EXCEPT ![w] = "dispose"]
  /\ UNCHANGED <<wenv, wj, wafter, whandler, seenStop, disposed>>
  /\ UNCHANGED <<stageVars, pipeVars, genVars, callVars, task_index, lock, tube,
                 closed, failTask, putlog, leaflog>>

\* The "finally" of run: doDispose(); the process ends.
ODispose(w) ==
  /\ wpc[w] = "dispose"
  /\ wpc' = [wpc EXCEPT ![w] = "done"]
  /\ disposed' = [disposed EXCEPT ![w] = @ + 1]
  /\ UNCHANGED <<wenv, wj, wafter, whandler, seenStop>>
  /\ UNCHANGED <<stageVars, pipeVars, genVars, callVars, task_index, lock, tube,
                 closed, failTask, putlog, leaflog>>

(***************************************************************************)
(* Pipeline.put (mpipe_plus/Pipeline.py), Stage.put (mpipe_plus/Stage.py). *)
(***************************************************************************)
\* Mutant: the lock excludes nobody.
LockFree_Always == TRUE

\* "with self.lock": the lock is taken by one thread at a time.
LockFree == lock = NoThread

PutAcquire(th) ==
  /\ pc[th] = "acq"
  /\ LockFree
  /\ lock' = th
  /\ pc' = [pc EXCEPT ![th] = "enq"]
  /\ UNCHANGED <<ptok, inputs, ordered, ci, cexc>>
  /\ UNCHANGED <<stageVars, pipeVars, workerVars, genVars, task_index, tube,
                 closed, failTask, putlog, leaflog>>

\* The envelope Stage.put makes of (self.task_index, task).
PutEnvelope(tok, i) == [tok EXCEPT !.idx = i, !.cnt = 0]

\* self._input_stage.put((self.task_index, task)); an exception of the tube
\* leaves the with block and the call.
PutEnqueue(th) ==
  LET t == InputTube(Root) IN
  /\ pc[th] = "enq"
  /\ \/ /\ IsClosed(t)
        /\ lock' = NoThread
        /\ pc' = [pc EXCEPT ![th] = "raised"]
        /\ cexc' = IF th = Main THEN ExcEnv(NoIndex, "TubeError", 0) ELSE cexc
        /\ UNCHANGED <<tube, putlog, leaflog>>
     \/ /\ ~IsClosed(t)
        /\ CanPut(t)
        /\ Enqueue(t, PutEnvelope(ptok[th], task_index))
        /\ pc' = [pc EXCEPT ![th] = "inc"]
        /\ UNCHANGED <<lock, cexc>>
  /\ UNCHANGED <<ptok, inputs, ordered, ci>>
  /\ UNCHANGED <<stageVars, pipeVars, workerVars, genVars, task_index,
                 closed, failTask>>

\* Mutant: the index is not advanced.
NextIndex_Same(i) == i

NextIndex(i) == i + 1

\* self.task_index += 1, the lock released; run goes on to its next put, or
\* returns the generator.
PutIncr(th) ==
  /\ pc[th] = "inc"
  /\ task_index' = NextIndex(task_index)
  /\ lock' = NoThread
  /\ IF th = Main
     THEN /\ ci' = ci + 1
          /\ IF ci + 1 <= Len(inputs)
             THEN /\ pc' = [pc EXCEPT ![th] = "acq"]
                  /\ ptok' = [ptok EXCEPT ![th] = RunToken(inputs, ci + 1)]
             ELSE /\ pc' = [pc EXCEPT ![th] = IF ci = Len(inputs) THEN "gen" ELSE "get2"]
                  /\ ptok' = [ptok EXCEPT ![th] = NoEnv]
     ELSE /\ pc' = [pc EXCEPT ![th] = "idle"]
          /\ ptok' = [ptok EXCEPT ![th] = NoEnv]
          /\ UNCHANGED ci
  /\ UNCHANGED <<inputs, ordered, cexc>>
  /\ UNCHANGED <<stageVars, pipeVars, workerVars, genVars, tube,
                 closed, failTask, putlog, leaflog>>

\* A producer thread calls Pipeline.put(task), task a value or
\* StopIteration(); ci counts the calls.
PutCall(th) ==
  /\ pc[th] = "idle"
  /\ ci < MaxPuts
  /\ \E tok \in {Token("Data", v) : v \in Vals} \cup {Token("Stop", 0)} :
       ptok' = [ptok EXCEPT ![th] = tok]
  /\ pc' = [pc EXCEPT ![th] = "acq"]
  /\ ci' = ci + 1
  /\ UNCHANGED <<inputs, ordered, cexc>>
  /\ UNCHANGED <<stageVars, pipeVars, workerVars, genVars, task_index, lock, tube,
                 closed, failTask, putlog, leaflog>>

(***************************************************************************)
(* Pipeline.get, Pipeline.results, Pipeline.results_ordered, Stage.get.    *)
(***************************************************************************)
\* Pipeline.get reaches output stage number i: past the last stage it
\* returns None and the generator ends; else Stage.get takes its snapshot
\* list(self.available_output_tubes) and reads the first tube, or, with no
\* tube available, joins the pool.
EnterStage(i) ==
  IF i > Len(output_stages)
  THEN /\ pc' = [pc EXCEPT ![Main] = "done"]
       /\ gi' = 0
       /\ gsnap' = <<>>
  ELSE /\ gi' = i
       /\ gsnap' = available[output_stages[i]]
       /\ pc' = [pc EXCEPT ![Main] =
                   IF available[output_stages[i]] = <<>> THEN "join" ELSE "get"]

\* The first next() on the generator run returned: results_ordered checks
\* the number of output stages, then both generators call get.
GenStart ==
  /\ pc[Main] = "gen"
  /\ IF ordered /\ Len(output_stages) # 1
     THEN /\ pc' = [pc EXCEPT ![Main] = "raised"]
          /\ cexc' = ExcEnv(NoIndex, "ValueError", 0)
          /\ UNCHANGED <<gi, gsnap>>
     ELSE /\ EnterStage(1)
          /\ UNCHANGED cexc
  /\ UNCHANGED <<ptok, inputs, ordered, ci, current, cache, yielded>>
  /\ UNCHANGED <<stageVars, pipeVars, workerVars, task_index, lock, tube,
                 closed, failTask, putlog, leaflog>>

\* Mutant: the tube that gave the Stop stays available.
Remove_Nothing(seq, x) == seq

\* list.remove(out): the first occurrence.
RECURSIVE Remove(_, _)
Remove(seq, x) ==
  IF seq = <<>> THEN <<>>
  ELSE IF Head(seq) = x THEN Tail(seq)
  ELSE <<Head(seq)>> \o Remove(Tail(seq), x)

\* workers_pool.terminate(): a process pool kills its worker processes; a
\* thread pool cannot stop the threads running Worker.process.
Terminate(s) ==
  IF multi_process
  THEN [w \in DOMAIN wpc |->
          IF StageOf(w) = s /\ wpc[w] # "done" THEN "killed" ELSE wpc[w]]
  ELSE wpc

\* results_ordered: cache[task_index] = res, then yield cache[current] while
\* current is in the cache.
RECURSIVE Flush(_, _)
Flush(c, cur) ==
  IF cur \in DOMAIN c THEN <<c[cur]>> \o Flush(c, cur + 1) ELSE <<>>

\* Mutant: every result is yielded as it arrives.
Receive_Unordered(i, v) ==
  /\ yielded' = Append(yielded, v)
  /\ UNCHANGED <<cache, current>>
  /\ EnterStage(1)

\* The generator receives result (i, v) from get, yields, and calls get again.
Receive(i, v) ==
  /\ IF ordered
     THEN LET c == [k \in (DOMAIN cache) \cup {i} |-> IF k = i THEN v ELSE cache[k]]
              out == Flush(c, current)
          IN /\ cache' = c
             /\ yielded' = yielded \o out
             /\ current' = current + Len(out)
     ELSE /\ yielded' = Append(yielded, v)
          /\ UNCHANGED <<cache, current>>
  /\ EnterStage(1)

\* Stage.get: out.get(timeout) on the next tube of the snapshot.
GetStep ==
  LET s == output_stages[gi]
      t == Head(gsnap) IN
  /\ pc[Main] = "get"
  /\ \/ /\ IsClosed(t)
        /\ pc' = [pc EXCEPT ![Main] = "raised"]
        /\ cexc' = ExcEnv(NoIndex, "TubeError", 0)
        /\ UNCHANGED <<tube, available, wpc, gi, gsnap, current, cache, yielded>>
     \/ /\ tube[t] # <<>>
        /\ tube' = [tube EXCEPT ![t] = Tail(@)]
        /\ LET e == Head(tube[t]) IN
           CASE e.kind = "Stop" ->
                  /\ available' = [available EXCEPT ![s] = Remove(@, t)]
                  /\ gsnap' = Tail(gsnap)
                  /\ pc' = [pc EXCEPT ![Main] =
                              IF Tail(gsnap) = <<>> THEN "join" ELSE "get"]
                  /\ UNCHANGED <<wpc, gi, current, cache, yielded, cexc>>
             [] e.kind \in {"Fail", "Exc"} ->
                  /\ wpc' = Terminate(s)
                  /\ pc' = [pc EXCEPT ![Main] = "raised"]
                  /\ cexc' = e
                  /\ UNCHANGED <<available, gi, gsnap, current, cache, yielded>>
             [] OTHER ->
                  /\ Receive(e.idx, e.val)
                  /\ UNCHANGED <<available, wpc, cexc>>
  /\ UNCHANGED <<ptok, inputs, ordered, ci, output_stages>>
  /\ UNCHANGED <<wenv, wj, wafter, whandler, seenStop, disposed>>
  /\ UNCHANGED <<stageVars, task_index, lock, closed, failTask, putlog, leaflog>>

\* Mutant: Stage.get takes the tube that timed out for finished.
AfterTimeout_Removes(av, s, t) == [av EXCEPT ![s] = Remove(@, t)]

\* available_output_tubes after out.get(timeout) raised: the exception leaves
\* Stage.get before anything is removed.
AfterTimeout(av, s, t) == av

\* Pipeline.get(timeout) with no item on the tube when the timeout elapses:
\* TubeP.get raises multiprocessing.TimeoutError, which leaves Stage.get and
\* Pipeline.get.
GetTimeout ==
  LET s == output_stages[gi]
      t == Head(gsnap) IN
  /\ pc[Main] = "get"
  /\ ~IsClosed(t)
  /\ tube[t] = <<>>
  /\ pc' = [pc EXCEPT ![Main] = "timedout"]
  /\ cexc' = ExcEnv(NoIndex, "TimeoutError", 0)
  /\ available' = AfterTimeout(available, s, t)
  /\ gi' = 0
  /\ gsnap' = <<>>
  /\ UNCHANGED <<ptok, inputs, ordered, ci, output_stages, current, cache, yielded>>
  /\ UNCHANGED <<stageVars, workerVars, task_index, lock, tube, closed, failTask,
                 putlog, leaflog>>

\* The caller calls Pipeline.get(timeout) again.
GetRetry ==
  /\ pc[Main] = "timedout"
  /\ EnterStage(1)
  /\ cexc' = NoEnv
  /\ UNCHANGED <<ptok, inputs, ordered, ci, current, cache, yielded>>
  /\ UNCHANGED <<stageVars, pipeVars, workerVars, task_index, lock, tube,
                 closed, failTask, putlog, leaflog>>

\* Stage.get after its loop: workers_pool.join(), then StopIteration, which
\* Pipeline.get answers by going to its next output stage.
Exited(w) == wpc[w] \in {"done", "killed"}
GetJoin ==
  /\ pc[Main] = "join"
  /\ \A w \in Workers : StageOf(w) = output_stages[gi] => Exited(w)
  /\ EnterStage(gi + 1)
  /\ UNCHANGED <<ptok, inputs, ordered, ci, cexc, current, cache, yielded>>
  /\ UNCHANGED <<stageVars, pipeVars, workerVars, task_index, lock, tube,
                 closed, failTask, putlog, leaflog>>

\* After the generator has ended and every worker has exited, the caller
\* calls Pipeline.put(StopIteration()) once more, then Pipeline.get().
StopAgain ==
  /\ pc[Main] = "done"
  /\ ci = Len(inputs) + 1
  /\ \A w \in Workers : Exited(w)
  /\ pc' = [pc EXCEPT ![Main] = "acq"]
  /\ ptok' = [ptok EXCEPT ![Main] = Token("Stop", 0)]
  /\ UNCHANGED <<inputs, ordered, ci, cexc>>
  /\ UNCHANGED <<stageVars, pipeVars, workerVars, genVars, task_index, lock, tube,
                 closed, failTask, putlog, leaflog>>

GetAgain ==
  /\ pc[Main] = "get2"
  /\ EnterStage(1)
  /\ UNCHANGED <<ptok, inputs, ordered, ci, cexc, current, cache, yielded>>
  /\ UNCHANGED <<stageVars, pipeVars, workerVars, task_index, lock, tube,
                 closed, failTask, putlog, leaflog>>

Next ==
  \/ \E w \in Workers : WInit(w)
  \/ \E w \in Workers : WFetch(w)
  \/ \E w \in Workers : WTask(w)
  \/ \E w \in Workers : WPut(w)
  \/ \E w \in Workers : WReput(w)
  \/ \E w \in Workers : WDispose(w)
  \/ PutAcquire(Main)
  \/ PutEnqueue(Main)
  \/ PutIncr(Main)
  \/ GenStart
  \/ GetStep
  \/ GetJoin

Spec == Init /\ [][Next]_vars

\* The run followed by a second Stop and a second get.
NextAgain == Next \/ StopAgain \/ GetAgain
SpecAgain == Init /\ [][NextAgain]_vars

\* Producer threads that call Pipeline.put concurrently, each call with a
\* value or StopIteration(), on a one-stage pipeline; nobody calls get.
Producers == Threads \ {Main}
InitPut ==
  \E nw \in 1..MaxWorkers, B \in 0..MaxBacklog, mp \in BOOLEAN :
    /\ Constructed(OneStage, [s \in Stages |-> IF s = Root THEN nw ELSE 1],
                   [s \in Stages |-> B], mp, NoFail)
    /\ Emitting
    /\ pc = [th \in Threads |-> IF th = Main THEN "off" ELSE "idle"]
    /\ ptok = [th \in Threads |-> NoEnv]
    /\ inputs = <<>>
    /\ ordered = FALSE
    /\ ci = 0
NextPut ==
  \/ \E w \in Workers : WInit(w)
  \/ \E w \in Workers : WFetch(w)
  \/ \E w \in Workers : WTask(w)
  \/ \E w \in Workers : WPut(w)
  \/ \E w \in Workers : WReput(w)
  \/ \E w \in Workers : WDispose(w)
  \/ \E th \in Producers : PutCall(th)
  \/ \E th \in Producers : PutAcquire(th)
  \/ \E th \in Producers : PutEnqueue(th)
  \/ \E th \in Producers : PutIncr(th)
SpecPut == InitPut /\ [][NextPut]_vars

\* run on a graph whose root, of one or more workers, is linked to two leaf
\* stages of one worker each.
InitLeaves ==
  \E n \in 1..MaxWorkers, B \in 0..MaxBacklog, ins \in FullInputs, ord \in BOOLEAN,
     mp \in BOOLEAN :
    InitPipeline(Fork, [s \in Stages |-> IF s = Root THEN n ELSE 1],
                 [s \in Stages |-> B], mp, ins, ord, NoFail)
SpecLeaves == InitLeaves /\ [][Next]_vars

\* The run with a caller whose get may time out and who then calls get again.
NextTimeout == Next \/ GetTimeout \/ GetRetry
SpecTimeout == Init /\ [][NextTimeout]_vars

\* The stages are linked by up to MaxLinks calls of link, then Pipeline(root)
\* is constructed over what was linked.
InitGraph ==
  /\ next_stages = NoLinks.ns
  /\ output_tubes = NoLinks.ot
  /\ available = [s \in Stages |-> <<>>]
  /\ spawned = [s \in Stages |-> 0]
  /\ num_worker \in [Stages -> 1..MaxWorkers]
  /\ maxsize = [t \in Tubes |-> 0]
  /\ multi_process = TRUE
  /\ output_stages = <<>>
  /\ task_index = 0
  /\ lock = NoThread
  /\ tube = [t \in Tubes |-> <<>>]
  /\ closed = {}
  /\ wpc = <<>> /\ wenv = <<>> /\ wj = <<>> /\ wafter = <<>> /\ whandler = <<>>
  /\ seenStop = <<>> /\ disposed = <<>>
  /\ gi = 0 /\ gsnap = <<>> /\ current = 0 /\ cache = <<>> /\ yielded = <<>>
  /\ cexc = NoEnv
  /\ failTask = NoFail
  /\ putlog = [t \in Tubes |-> <<>>]
  /\ leaflog = <<>>
  /\ Emitting
  /\ NoRing
  /\ pc = [th \in Threads |-> IF th = Main THEN "graph" ELSE "off"]
  /\ ptok = [th \in Threads |-> NoEnv]
  /\ inputs = <<>>
  /\ ordered = FALSE
  /\ ci = 0

NumLinks == Len(next_stages[1]) + Len(next_stages[2]) + Len(next_stages[3])

\* a.link(b) called by the main thread; link(self) raises ValueError.
LinkCall(a, b) ==
  LET g == Link([ns |-> next_stages, ot |-> output_tubes], a, b) IN
  /\ pc[Main] = "graph"
  /\ NumLinks < MaxLinks
  /\ next_stages' = g.ns
  /\ output_tubes' = g.ot
  /\ cexc' = IF a = b THEN ExcEnv(NoIndex, "ValueError", 0) ELSE NoEnv
  /\ UNCHANGED <<num_worker, spawned, maxsize, multi_process, disable_result,
                 noneTask, in_lock, out_lock, pipeVars, workerVars,
                 genVars, pc, ptok, inputs, ordered, ci, task_index, lock, tube,
                 closed, failTask, putlog, leaflog>>

\* The stages reached from the stages of S by one or more links.
RECURSIVE Descendants(_, _, _)
Descendants(ns, S, n) ==
  LET next == UNION {RangeOf(ns[s]) : s \in S} IN
  IF n = 0 THEN {} ELSE next \cup Descendants(ns, next, n - 1)
Cyclic(ns) ==
  \E s \in {Root} \cup Descendants(ns, {Root}, NumStages) :
    s \in Descendants(ns, {s}, NumStages)

\* Pipeline(root): get_leaves, then build; on a graph with a cycle
\* get_leaves recurses until RecursionError.
Construct ==
  /\ pc[Main] = "graph"
  /\ IF Cyclic(next_stages)
     THEN /\ pc' = [pc EXCEPT ![Main] = "raised"]
          /\ cexc' = ExcEnv(NoIndex, "RecursionError", 0)
          /\ UNCHANGED <<output_tubes, spawned, pipeVars, workerVars>>
     ELSE LET b == Build(Unbuilt([ns |-> next_stages, ot |-> output_tubes]),
                         next_stages, num_worker, Root) IN
          /\ pc' = [pc EXCEPT ![Main] = "built"]
          /\ cexc' = NoEnv
          /\ output_stages' = get_leaves(next_stages, Root)
          /\ output_tubes' = b.ot
          /\ available' = b.avail
          /\ spawned' = b.pool
          /\ wpc' = [w \in WorkersOf(b.pool) |-> "init"]
          /\ wenv' = [w \in WorkersOf(b.pool) |-> NoEnv]
          /\ wj' = [w \in WorkersOf(b.pool) |-> 0]
          /\ wafter' = [w \in WorkersOf(b.pool) |-> ""]
          /\ whandler' = [w \in WorkersOf(b.pool) |-> FALSE]
          /\ seenStop' = [w \in WorkersOf(b.pool) |-> 0]
          /\ disposed' = [w \in WorkersOf(b.pool) |-> 0]
  /\ UNCHANGED <<next_stages, num_worker, maxsize, multi_process, disable_result,
                 noneTask, in_lock, out_lock, genVars, ptok,
                 inputs, ordered, ci, task_index, lock, tube, closed, failTask,
                 putlog, leaflog>>

NextGraph ==
  \/ \E a, b \in Stages : LinkCall(a, b)
  \/ Construct
SpecGraph == InitGraph /\ [][NextGraph]_vars

\* run over inputs of which one may be a KeyboardInterrupt object.
CancelInputs == {<<2>>, <<CancelObj>>, <<2, CancelObj>>}
InitCancel == InitOver({OneStage, Chain}, {TRUE}, {NoFail}, CancelInputs, BOOLEAN)
SpecCancel == InitCancel /\ [][Next]_vars

\* run on a graph in which stage 3 has two upstream stages, 1 and 2.
InitFanIn ==
  \E n \in 1..MaxWorkers :
    InitPipeline(FanIn, [s \in Stages |-> IF s = Root THEN n ELSE 1],
                 [s \in Stages |-> 0], TRUE, <<2>>, FALSE, NoFail)
SpecFanIn == InitFanIn /\ [][Next]_vars

\* Runs in which doTask may raise for one task of one stage, in a process
\* pool or in a thread pool.
Fails == {<<s, i>> : s \in {1, 2}, i \in 0..(MaxInputs - 1)}
InitFail == InitOver({OneStage, Chain}, {TRUE, FALSE}, Fails, FullInputs, {FALSE})
NextFail == Next \/ \E w \in Workers : WClose(w)
SpecFail == InitFail /\ [][NextFail]_vars

\* Runs of the chain 1 -> 2 in which doInit or doTask of a stage may raise, a
\* task may be a KeyboardInterrupt object, and a tube's close may raise.
ExitInputs == {<<2>>, <<CancelObj>>}
ExitFails == {NoFail} \cup {<<s, i>> : s \in {1, 2}, i \in {AtInit, 0}}
InitExit ==
  \E mp \in BOOLEAN, ins \in ExitInputs, ft \in ExitFails, n \in 1..MaxWorkers :
    InitPipeline(Chain, [s \in Stages |-> IF s = Root THEN n ELSE 1],
                 [s \in Stages |-> 0], mp, ins, FALSE, ft)
NextExit == NextFail \/ \E w \in Workers : WCloseFails(w)
SpecExit == InitExit /\ [][NextExit]_vars

\* Runs of the fork 1 -> 2, 1 -> 3 with worker processes in which stage d
\* (none for d = 0) has disable_result set, doTask of one task may return
\* None, and doTask of task 1 of the root may raise.
InitEmit ==
  \E n \in 1..MaxWorkers, d \in 0..2, nt \in {NoFail, <<1, 0>>, <<3, 1>>},
     ft \in {NoFail, <<1, 1>>}, ins \in FullInputs :
    /\ Constructed(Fork, [s \in Stages |-> IF s = Root THEN n ELSE 1],
                   [s \in Stages |-> 0], TRUE, ft)
    /\ disable_result = [s \in Stages |-> s = d]
    /\ noneTask = nt
    /\ RunCalled(ins, FALSE)
SpecEmit == InitEmit /\ [][NextFail]_vars

\* Runs of the chain 1 -> 2 with worker processes in which a get on an open
\* input tube may raise.
InitTransport ==
  \E n \in 1..MaxWorkers :
    InitPipeline(Chain, [s \in Stages |-> IF s = Root THEN n ELSE 1],
                 [s \in Stages |-> 0], TRUE, <<2>>, FALSE, NoFail)
NextTransport == NextFail \/ \E w \in Workers : WFetchFails(w)
SpecTransport == InitTransport /\ [][NextTransport]_vars

\* run(inputs, ordered_results=True) on a one-leaf pipeline with worker
\* processes in which doTask of task 0 of the root may return None.
InitSkip ==
  \E g \in {OneStage, Chain}, n \in 1..MaxWorkers, nt \in {NoFail, <<Root, 0>>},
     ins \in FullInputs :
    /\ Constructed(g, [s \in Stages |-> IF s = Root THEN n ELSE 1],
                   [s \in Stages |-> 0], TRUE, NoFail)
    /\ disable_result = [s \in Stages |-> FALSE]
    /\ noneTask = nt
    /\ RunCalled(ins, TRUE)
SpecSkip == InitSkip /\ [][Next]_vars

\* run([2], ordered_results=True) on a one-stage pipeline whose doTask has
\* called putResult itself, with any indices and in any order, and returned
\* None: the worker has put up to MaxArrivals results and the Stop on the
\* leaf tube and has exited; the caller is about to start the generator.
Arrival == {Env("Data", i, v, 0) : i \in 0..MaxInputs, v \in Vals}
InitArrivals ==
  \E arr \in SeqsUpTo(Arrival, MaxArrivals) :
    LET b == Build(Unbuilt(OneStage), OneStage.ns, [s \in Stages |-> 1], Root)
        leaf == LeafTube(Root)
        task == Env("Data", 0, 2, 0)
        stop == Env("Stop", 1, 0, 0)
        out == arr \o <<stop>> IN
    /\ next_stages = OneStage.ns
    /\ output_stages = get_leaves(OneStage.ns, Root)
    /\ output_tubes = b.ot
    /\ available = b.avail
    /\ spawned = b.pool
    /\ num_worker = [s \in Stages |-> 1]
    /\ maxsize = [t \in Tubes |-> 0]
    /\ multi_process = FALSE
    /\ disable_result = [s \in Stages |-> FALSE]
    /\ noneTask = <<Root, 0>>
    /\ NoRing
    /\ task_index = 2
    /\ lock = NoThread
    /\ tube = [t \in Tubes |-> IF t = leaf THEN out ELSE <<>>]
    /\ putlog = [t \in Tubes |-> IF t = leaf THEN out
                                 ELSE IF t = InputTube(Root) THEN <<task, stop>>
                                 ELSE <<>>]
    /\ leaflog = [k \in 1..Len(arr) |-> arr[k].val]
    /\ closed = {}
    /\ wpc = [w \in WorkersOf(b.pool) |-> "done"]
    /\ wenv = [w \in WorkersOf(b.pool) |-> NoEnv]
    /\ wj = [w \in WorkersOf(b.pool) |-> 0]
    /\ wafter = [w \in WorkersOf(b.pool) |-> ""]
    /\ whandler = [w \in WorkersOf(b.pool) |-> FALSE]
    /\ seenStop = [w \in WorkersOf(b.pool) |-> 1]
    /\ disposed = [w \in WorkersOf(b.pool) |-> 1]
    /\ gi = 0 /\ gsnap = <<>> /\ current = 0 /\ cache = <<>> /\ yielded = <<>>
    /\ cexc = NoEnv
    /\ failTask = NoFail
    /\ pc = [th \in Threads |-> IF th = Main THEN "gen" ELSE "off"]
    /\ ptok = [th \in Threads |-> NoEnv]
    /\ inputs = <<2>>
    /\ ordered = TRUE
    /\ ci = 2
NextArrivals == GenStart \/ GetStep \/ GetJoin
SpecArrivals == InitArrivals /\ [][NextArrivals]_vars

\* OrderedWorker.assemble has made a ring of N workers with two output
\* tubes; up to MaxTasks tasks and then one Stop have been put on the input
\* tube; doTask may return None for one task, or raise for task 0, and
\* disable_result may be set.
RingTasks(n) ==
  [i \in 1..(n + 1) |->
     IF i <= n THEN Env("Data", i - 1, 1 + (i % 2), 0) ELSE Env("Stop", n, 0, 0)]
InitRing ==
  \E N \in 1..MaxRing, n \in 0..MaxTasks, dr \in BOOLEAN, ft \in {NoFail, <<Root, 0>>} :
    \E nt \in {NoFail} \cup {<<Root, i>> : i \in 0..(n - 1)} :
      /\ next_stages = NoLinks.ns
      /\ output_tubes = [s \in Stages |->
                           IF s = Root THEN <<LeafTube(1), LeafTube(2)>> ELSE <<>>]
      /\ available = [s \in Stages |-> <<>>]
      /\ output_stages = <<>>
      /\ spawned = [s \in Stages |-> IF s = Root THEN N ELSE 0]
      /\ num_worker = [s \in Stages |-> IF s = Root THEN N ELSE 1]
      /\ maxsize = [t \in Tubes |-> 0]
      /\ multi_process = TRUE
      /\ disable_result = [s \in Stages |-> s = Root /\ dr]
      /\ noneTask = nt
      /\ in_lock = [k \in 1..N |-> k # 1]
      /\ out_lock = [k \in 1..N |-> k # 1]
      /\ task_index = 0
      /\ lock = NoThread
      /\ tube = [t \in Tubes |-> IF t = InputTube(Root) THEN RingTasks(n) ELSE <<>>]
      /\ putlog = [t \in Tubes |-> IF t = InputTube(Root) THEN RingTasks(n) ELSE <<>>]
      /\ leaflog = <<>>
      /\ closed = {}
      /\ wpc = [w \in {<<Root, k>> : k \in 1..N} |-> "init"]
      /\ wenv = [w \in {<<Root, k>> : k \in 1..N} |-> NoEnv]
      /\ wj = [w \in {<<Root, k>> : k \in 1..N} |-> 0]
      /\ wafter = [w \in {<<Root, k>> : k \in 1..N} |-> ""]
      /\ whandler = [w \in {<<Root, k>> : k \in 1..N} |-> FALSE]
      /\ seenStop = [w \in {<<Root, k>> : k \in 1..N} |-> 0]
      /\ disposed = [w \in {<<Root, k>> : k \in 1..N} |-> 0]
      /\ gi = 0 /\ gsnap = <<>> /\ current = 0 /\ cache = <<>> /\ yielded = <<>>
      /\ cexc = NoEnv
      /\ failTask = ft
      /\ pc = [th \in Threads |-> "off"]
      /\ ptok = [th \in Threads |-> NoEnv]
      /\ inputs = <<>>
      /\ ordered = FALSE
      /\ ci = 0
NextRing ==
  \/ \E w \in Workers : OInit(w)
  \/ \E w \in Workers : OAcquireInput(w)
  \/ \E w \in Workers : OFetch(w)
  \/ \E w \in Workers : OTask(w)
  \/ \E w \in Workers : OAcquireOutput(w)
  \/ \E w \in Workers : OPut(w)
  \/ \E w \in Workers : OReput(w)
  \/ \E w \in Workers : OClose(w)
  \/ \E w \in Workers : ODispose(w)
SpecRing == InitRing /\ [][NextRing]_vars
\* Every process that can take a step eventually takes one.
SpecRingFair == SpecRing /\ WF_vars(NextRing)

\* run on the chain 1 -> 2 -> 3 with worker processes and unbounded tubes,
\* two workers in the middle stage; doTask of stage 1 may raise on task 0.
\* Every step that is enabled for ever is eventually taken.
InitDrain ==
  \E ft \in {NoFail, <<1, 0>>} :
    InitPipeline(Chain3, <<1, 2, 1>>, [s \in Stages |-> 0], TRUE, <<2>>, FALSE, ft)
SpecDrain == InitDrain /\ [][NextFail]_vars /\ WF_vars(NextFail)

(***************************************************************************)
(* Properties.                                                             *)
(***************************************************************************)
\* A straight pipeline: every stage has at most one next stage.
Linear == \A s \in Stages : Len(next_stages[s]) <= 1
InPipeline == Reachable(spawned)
NoTaskFails == \A s \in InPipeline, i \in 0..(Len(inputs) - 1) : failTask # <<s, i>>

\* fk(...f1(v)): v taken through the stages from s down to the leaf.
RECURSIVE Through(_, _)
Through(s, v) ==
  IF next_stages[s] = <<>> THEN StageFn(s, v)
  ELSE Through(next_stages[s][1], StageFn(s, v))
Expected == [i \in 1..Len(inputs) |-> Through(Root, inputs[i])]

IsPrefix(a, b) == Len(a) <= Len(b) /\ a = SubSeq(b, 1, Len(a))
Count(seq, x) == Cardinality({i \in 1..Len(seq) : seq[i] = x})
SameBag(a, b) == \A x \in RangeOf(a) \cup RangeOf(b) : Count(a, x) = Count(b, x)
SubBag(a, b) == \A x \in RangeOf(a) : Count(a, x) <= Count(b, x)
DataOf(seq) == SelectSeq(seq, LAMBDA e : e.kind = "Data")
StopsOf(seq) == SelectSeq(seq, LAMBDA e : e.kind = "Stop" /\ e.cnt = 0)
IdxOf(seq) == [i \in 1..Len(seq) |-> seq[i].idx]
TheLeafTube == LeafTube(output_stages[1])
GeneratorEnded == pc[Main] = "done"

\* C1 (ordered delivery): in a straight pipeline whose tasks never fail,
\* run(inputs, ordered_results=True) yields at every moment a prefix of
\* f(x[0]), ..., f(x[n-1]), and when the generator ends it has yielded all
\* of it, for every worker count of the model and every interleaving.
C1_OrderedDelivery ==
  (Linear /\ ordered /\ NoTaskFails) =>
    /\ IsPrefix(yielded, Expected)
    /\ GeneratorEnded => yielded = Expected

\* C1 witness: an ordered run of two inputs has ended with both values
\* yielded in input order although the leaf emitted index 1 before index 0.
C1_Witness ==
  /\ Linear /\ ordered /\ GeneratorEnded
  /\ Len(inputs) = 2 /\ inputs[1] # inputs[2]
  /\ yielded = Expected
  /\ IdxOf(DataOf(putlog[TheLeafTube])) = <<1, 0>>

\* C2 (total delivery): in a straight pipeline whose tasks never fail the
\* values results() has yielded are a sub-multiset of the transformed
\* inputs, the leaf never emits two Data results of one task index, and when
\* the generator ends the yielded values are exactly the multiset of the n
\* transformed inputs, one Data result per admitted index at the leaf.
C2_TotalDelivery ==
  (Linear /\ ~ordered /\ NoTaskFails) =>
    LET leaf == IdxOf(DataOf(putlog[TheLeafTube])) IN
    /\ SubBag(yielded, Expected)
    /\ \A i \in RangeOf(leaf) : Count(leaf, i) = 1
    /\ GeneratorEnded =>
         /\ SameBag(yielded, Expected)
         /\ RangeOf(leaf) = 0..(Len(inputs) - 1)

\* C2 witness: an unordered run of two equal inputs through two stages of
\* two workers has ended with both results yielded.
C2_Witness ==
  /\ Linear /\ ~ordered /\ GeneratorEnded
  /\ Len(output_stages) = 1 /\ next_stages[Root] # <<>>
  /\ \A s \in InPipeline : num_worker[s] = 2
  /\ Len(inputs) = 2 /\ inputs[1] = inputs[2]
  /\ Len(yielded) = 2

\* C3 (stop relay): a stage whose input tube has received one Stop puts at
\* most one Stop on each of its output tubes, puts it only after a Data
\* result of every Data index that entered its input tube, and has put
\* exactly one once all its workers have exited.
EmittedStops(t) == {p \in 1..Len(putlog[t]) :
                     putlog[t][p].kind = "Stop" /\ putlog[t][p].cnt = 0}
DataIdxBefore(t, p) == {putlog[t][q].idx : q \in {q \in 1..(p - 1) : putlog[t][q].kind = "Data"}}
DataIdxIn(t) == DataIdxBefore(t, Len(putlog[t]) + 1)
StageExited(s) == \A w \in Workers : StageOf(w) = s => Exited(w)
C3_StopRelay ==
  NoTaskFails =>
    \A s \in InPipeline :
      Cardinality(EmittedStops(InputTube(s))) = 1 =>
        \A t \in RangeOf(output_tubes[s]) :
          /\ Cardinality(EmittedStops(t)) <= 1
          /\ \A p \in EmittedStops(t) : DataIdxIn(InputTube(s)) \subseteq DataIdxBefore(t, p)
          /\ StageExited(s) => Cardinality(EmittedStops(t)) = 1

\* C3 witness: a root stage of two workers, each of which processed one of
\* two tasks, has relayed the Stop through both and put it on its output tube.
C3_Witness ==
  /\ num_worker[Root] = 2 /\ Len(inputs) = 2
  /\ StageExited(Root)
  /\ \A w \in Workers : StageOf(w) = Root => seenStop[w] = 1
  /\ Cardinality(EmittedStops(output_tubes[Root][1])) = 1
  /\ DataIdxIn(output_tubes[Root][1]) = {0, 1}

\* Scheduling: a thread or process that can take a step is eventually run.
FairSpec == Spec /\ WF_vars(Next)

\* C4 (clean drain): under fair scheduling, a straight pipeline whose tasks
\* all return reaches a state in which every worker of every stage has
\* fetched the Stop exactly once and exited and Pipeline.get has returned
\* None, ending the generator.
Drained ==
  /\ pc[Main] = "done"
  /\ \A w \in Workers : wpc[w] = "done" /\ seenStop[w] = 1 /\ disposed[w] = 1
C4_CleanDrain == (Linear /\ NoTaskFails) ~> Drained

\* C4 witness: a drained pipeline of two stages with two workers each.
C4_Witness ==
  /\ Drained /\ next_stages[Root] # <<>> /\ Len(inputs) = 2
  /\ \A s \in InPipeline : num_worker[s] = 2

\* C6 (backpressure): a stage's bounded input tube never holds more than
\* max_backlog items, no step adds to it while it holds that many, and the
\* items put on it whose processing has not finished (those on the tube
\* plus those held by a worker of the stage) number at most B + N.
Holding(s) == {w \in Workers : StageOf(w) = s /\ wpc[w] \in {"task", "put", "reput"}}
InFlight(s) == Len(tube[InputTube(s)]) + Cardinality(Holding(s))
Bounded == {s \in InPipeline : maxsize[InputTube(s)] >= 1}
C6_Bound ==
  \A s \in Bounded :
    /\ Len(tube[InputTube(s)]) <= maxsize[InputTube(s)]
    /\ InFlight(s) <= maxsize[InputTube(s)] + spawned[s]
C6_Blocks ==
  \A s \in Bounded :
    Len(tube[InputTube(s)]) = maxsize[InputTube(s)] =>
      Len(tube'[InputTube(s)]) <= Len(tube[InputTube(s)])
C6_Backpressure == []C6_Bound /\ [][C6_Blocks]_vars

\* C6 witness: the bounded input tube of the second stage is full, both its
\* workers hold a task, and a worker of the first stage waits to put on it.
C6_Witness ==
  /\ 2 \in Bounded
  /\ Len(tube[InputTube(2)]) = maxsize[InputTube(2)]
  /\ InFlight(2) = maxsize[InputTube(2)] + spawned[2]
  /\ \E w \in Workers : StageOf(w) = 1 /\ wpc[w] = "put"

\* C9 (idempotent Stop): once the generator has ended and all workers have
\* exited, a second Pipeline.put(StopIteration()) and the Pipeline.get after
\* it never wait and never raise: the lock is free, the root tube has room
\* and is open, get reads no tube and its join finds every worker gone, so
\* it returns None and the results already yielded stay as they were.
SecondStop ==
  \/ ci = Len(inputs) + 1 /\ pc[Main] \in {"acq", "enq", "inc"}
  \/ ci = Len(inputs) + 2
C9_IdempotentStop ==
  SecondStop =>
    /\ pc[Main] \in {"acq", "enq", "inc", "get2", "join", "done"}
    /\ cexc = NoEnv
    /\ pc[Main] = "acq" => LockFree
    /\ pc[Main] = "enq" => ~IsClosed(InputTube(Root)) /\ CanPut(InputTube(Root))
    /\ pc[Main] = "join" => StageExited(output_stages[gi])
    /\ Linear /\ NoTaskFails => SameBag(yielded, Expected)

\* C9 witness: the second get has returned None: the second Stop lies unread
\* on the bounded root tube of a drained two-stage pipeline.
C9_Witness ==
  /\ ci = Len(inputs) + 2 /\ pc[Main] = "done"
  /\ next_stages[Root] # <<>> /\ maxsize[InputTube(Root)] = 1
  /\ Len(tube[InputTube(Root)]) = 1 /\ tube[InputTube(Root)][1].kind = "Stop"
  /\ Len(inputs) = 2

\* doTask has raised for the task failTask names: the task was put on the
\* stage's input tube, is no longer on it, and no worker still holds it
\* before doTask.
TaskFailed ==
  LET s == failTask[1]
      i == failTask[2]
      Is(e) == e.kind = "Data" /\ e.idx = i
  IN /\ s \in Stages
     /\ \E p \in 1..Len(putlog[InputTube(s)]) : Is(putlog[InputTube(s)][p])
     /\ \A p \in 1..Len(tube[InputTube(s)]) : ~Is(tube[InputTube(s)][p])
     /\ \A w \in Workers :
          StageOf(w) = s /\ wpc[w] \in {"task", "killed"} => ~Is(wenv[w])

\* The WorkException the failing worker makes: the original exception, the
\* stage, the task value as it reached the stage.
RECURSIVE Before(_, _)
Before(s, v) ==
  IF s = Root THEN v
  ELSE LET u == CHOOSE u \in Stages : s \in RangeOf(next_stages[u])
       IN StageFn(u, Before(u, v))
TheFailure ==
  WorkException(failTask[2], "UserError", failTask[1],
                Before(failTask[1], inputs[failTask[2] + 1]))

\* C5 (failure poisoning), as claimed: once doTask has raised for a task of a
\* linear pipeline, whatever is raised to the caller is the WorkException
\* with the original exception, the failing stage and the offending task,
\* and the caller is not given None.
C5_FailurePoisoning ==
  Linear /\ TaskFailed =>
    /\ pc[Main] = "raised" => cexc = TheFailure
    /\ pc[Main] # "done"

\* The same in a process pool only, where close_pipes closes the worker's
\* own copies of the tubes.
C5_ProcessPool ==
  Linear /\ TaskFailed /\ multi_process =>
    /\ pc[Main] = "raised" => cexc = TheFailure
    /\ pc[Main] # "done"

\* The envelopes Pipeline.put has enqueued on the root tube, in the order of
\* their enqueueing: those with relay count 0 (a root worker puts a Stop
\* back with count >= 1).
Admitted == SelectSeq(putlog[InputTube(Root)], LAMBDA e : e.cnt = 0)
Increasing(seq) == \A p, q \in 1..Len(seq) : p < q => seq[p].idx < seq[q].idx
\* Every Data envelope put on a tube or held by a worker has the index and
\* the value, as transformed so far, of the task Pipeline.put admitted.
KeepsIndex ==
  /\ \A s \in Reachable(spawned) : \A p \in 1..Len(putlog[InputTube(s)]) :
       LET e == putlog[InputTube(s)][p] IN
       e.kind = "Data" =>
         /\ e.idx + 1 \in 1..Len(Admitted)
         /\ e.val = Before(s, Admitted[e.idx + 1].val)
  /\ \A s \in Reachable(spawned) : next_stages[s] = <<>> =>
       \A p \in 1..Len(putlog[LeafTube(s)]) :
         LET e == putlog[LeafTube(s)][p] IN
         e.kind = "Data" =>
           /\ e.idx + 1 \in 1..Len(Admitted)
           /\ e.val = StageFn(s, Before(s, Admitted[e.idx + 1].val))

\* C7 (index assignment), as claimed: the indices of the envelopes on the
\* root input tube are strictly increasing in the tube's FIFO order.
NoDataAfterStop ==
  \A p, q \in 1..Len(Admitted) :
    p < q /\ Admitted[p].kind = "Stop" => Admitted[q].kind # "Data"
C7_TubeOrder ==
  NoDataAfterStop => Increasing(tube[InputTube(Root)]) /\ KeepsIndex

\* C7 (index assignment), amended: the envelopes Pipeline.put enqueues under
\* the lock carry the indices 0, 1, 2, ... in the order of their enqueueing,
\* so they are unique and strictly increasing, task_index is the number of
\* completed puts, and each task keeps its index through every stage.
C7_IndexAssignment ==
  /\ \A p \in 1..Len(Admitted) : Admitted[p].idx = p - 1
  /\ task_index \in {Len(Admitted), Len(Admitted) - 1}
  /\ task_index = Len(Admitted) - 1 => \E th \in Threads : pc[th] = "inc"
  /\ KeepsIndex

\* C7 witness: two producers have put concurrently, one waiting for the
\* lock while the other held it, and a Stop that a root worker put back lies
\* on the root tube behind an envelope with a larger index.
C7_Witness ==
  /\ Len(Admitted) = MaxPuts
  /\ \E p, q \in 1..Len(putlog[InputTube(Root)]) :
       /\ p < q
       /\ putlog[InputTube(Root)][p].idx > putlog[InputTube(Root)][q].idx
  /\ \E p \in 1..Len(putlog[LeafTube(Root)]) :
       putlog[LeafTube(Root)][p].kind = "Data"

\* C8 (no Data after Stop), as claimed: no Data envelope is enqueued by
\* Pipeline.put on the root input tube after a Stop envelope.
C8_NoDataAfterStop ==
  \A th \in Threads :
    pc[th] = "inc" /\ ptok[th].kind = "Data" =>
      \A p \in 1..Len(Admitted) : Admitted[p].kind # "Stop"

\* C10 (ordered results on several leaves), as claimed: when the ValueError
\* for a graph with more than one leaf is raised, no worker has run and no
\* task has been admitted.
C10_FailsBeforeAnyWork ==
  pc[Main] = "raised" /\ cexc.exc = "ValueError" =>
    /\ \A w \in Workers : wpc[w] = "init"
    /\ putlog[InputTube(Root)] = <<>>
    /\ task_index = 0

\* C11 (acyclic graph), as claimed: whatever links were accepted, the graph
\* reached from the input stage has no cycle.
C11_Acyclic == ~Cyclic(next_stages)

\* C12 (build once), as claimed: after Pipeline construction every reachable
\* stage has been built once and has num_worker workers on its input tube,
\* on any graph without a cycle in which no link is made twice.
SimpleGraph ==
  \A s \in Stages : \A p, q \in 1..Len(next_stages[s]) :
    p # q => next_stages[s][p] # next_stages[s][q]
C12_BuiltOnce ==
  pc[Main] = "built" /\ SimpleGraph =>
    \A s \in Stages :
      spawned[s] = IF s \in {Root} \cup Descendants(next_stages, {Root}, NumStages)
                   THEN num_worker[s] ELSE 0

\* C13 (Cancel), as claimed: a KeyboardInterrupt put by the caller is never
\* raised to the caller and never given to it as an ordinary result.
C13_CancelIsNone ==
  /\ cexc.kind # "Cancel"
  /\ CancelObj \notin RangeOf(yielded)
  /\ NoIndex \notin DOMAIN cache

\* C14 (Timeout): a get whose timeout elapses raises TimeoutError, which is
\* neither None nor a WorkException; the step changes no worker, no tube, no
\* available set and no result; and when the caller's later gets have reached
\* the end of the stream every result has been returned.
TimedOut == pc[Main] = "timedout"
C14_Reported ==
  /\ TimedOut => cexc = ExcEnv(NoIndex, "TimeoutError", 0)
  /\ GeneratorEnded /\ Linear /\ NoTaskFails => SameBag(yielded, Expected)
C14_Frame ==
  TimedOut' /\ ~TimedOut =>
    UNCHANGED <<stageVars, pipeVars, workerVars, tube, closed, putlog, leaflog, yielded,
                cache, current, task_index>>
C14_Timeout == []C14_Reported /\ [][C14_Frame]_vars

\* C14 witness: a get has timed out after one result was returned and while
\* another is still on its way through a two-stage pipeline.
C14_Witness ==
  /\ TimedOut /\ Len(yielded) = 1 /\ Len(inputs) = 2
  /\ next_stages[Root] # <<>>
  /\ \E w \in Workers : wpc[w] = "task"

\* C15 (no put after close), as claimed: no step of a worker or of the caller
\* is a put on a tube that has been closed.
PutOnClosed(w) ==
  \/ wpc[w] = "put" /\ IsClosed(output_tubes[StageOf(w)][wj[w]])
  \/ wpc[w] = "reput" /\ IsClosed(InputTube(StageOf(w)))
C15_Step ==
  /\ \A w \in Workers :
       PutOnClosed(w) => <<wpc[w], wenv[w], whandler[w]>>' = <<wpc[w], wenv[w], whandler[w]>>
  /\ \A th \in Threads :
       pc[th] = "enq" /\ IsClosed(InputTube(Root)) => pc'[th] = "enq"
C15_NoPutAfterClose == [][C15_Step]_vars

\* C16 (completion order), as claimed: results() yields the results in the
\* order in which they were put on the leaf output tubes, on a graph with
\* several leaf stages too.
C16_CompletionOrder == ~ordered => IsPrefix(yielded, leaflog)

\* The same on a graph with one leaf stage.
C16_OneLeaf == ~ordered /\ Len(output_stages) = 1 => IsPrefix(yielded, leaflog)

\* C17 (Stop never overtakes Data), as claimed: the caller putting no Data
\* after its Stop, no tube holds a Data envelope behind a Stop envelope.
StopBeforeData(t) ==
  \E p, q \in 1..Len(tube[t]) :
    p < q /\ tube[t][p].kind = "Stop" /\ tube[t][q].kind = "Data"
C17_StopNeverOvertakes == \A t \in Tubes : ~StopBeforeData(t)

\* C18 (failure drains the whole graph), as claimed: once the caller has
\* observed the failure, every worker of every stage eventually exits.
ErrorObserved == pc[Main] = "raised" /\ cexc.kind = "Fail"
AllExited == \A w \in Workers : Exited(w)
C18_FailureDrains == ErrorObserved ~> AllExited

\* The caller never puts a Fail token on the input tube of the root stage.
C18_NoReinjection ==
  \A k \in 1..Len(putlog[InputTube(Root)]) :
    putlog[InputTube(Root)][k].kind # "Fail"

\* C19 (doDispose exactly once): a worker whose run has ended has run
\* doDispose exactly once, whatever the path by which run ended, and no worker
\* runs doDispose before its run ends or more than once.
C19_DisposedOnce ==
  \A w \in Workers :
    /\ disposed[w] <= 1
    /\ wpc[w] = "done" <=> disposed[w] = 1

\* A worker has ended through an exception raised inside the handler of run
\* (at the put of the WorkException or at close_pipes).
C19_Witness ==
  \E w \in Workers :
    /\ wpc[w] = "done"
    /\ disposed[w] = 1
    /\ whandler[w]
    /\ wafter[w] = "close"

\* The envelopes of kind k and index i put on tube t so far.
PutsOf(t, k, i) ==
  {p \in 1..Len(putlog[t]) : putlog[t][p].kind = k /\ putlog[t][p].idx = i}
\* The workers of stage s have taken Data i and none of them still holds it.
Completed(s, i) ==
  /\ PutsOf(InputTube(s), "Data", i) # {}
  /\ \A p \in 1..Len(tube[InputTube(s)]) :
       ~(tube[InputTube(s)][p].kind = "Data" /\ tube[InputTube(s)][p].idx = i)
  /\ \A w \in Workers :
       StageOf(w) = s => ~(wenv[w].kind \in {"Data", "Fail"} /\ wenv[w].idx = i)
\* The task that stage s received under index i.
TaskOf(s, i) ==
  LET t == InputTube(s) IN putlog[t][CHOOSE p \in PutsOf(t, "Data", i) : TRUE].val
Indices == 0..(MaxInputs - 1)
Dropped(s, i) == disable_result[s] \/ noneTask = <<s, i>>

Reading(s) == pc[Main] = "get" /\ output_stages[gi] = s
AtJoin(s) == pc[Main] = "join" /\ output_stages[gi] = s
\* The caller takes the envelope at the head of the tube it is reading.
Takes(k) ==
  /\ pc[Main] = "get"
  /\ Len(tube'[Head(gsnap)]) < Len(tube[Head(gsnap)])
  /\ Head(tube[Head(gsnap)]).kind = k
Untouched(s) == \A t \in RangeOf(output_tubes[s]) : tube'[t] = tube[t]

\* C21 (Stage.get end-of-stream): a Stop read from an output tube takes the
\* tube out of the available list and yields nothing; Stage.get goes to its
\* StopIteration only with no tube available; a Stage.get entered with no
\* tube available reads no tube, and its join finds every worker of the
\* stage gone, so it raises StopIteration at once.
C21_Step ==
  \A s \in Stages :
    /\ Reading(s) /\ Takes("Stop") =>
         /\ Head(gsnap) \notin RangeOf(available'[s])
         /\ yielded' = yielded /\ cache' = cache /\ cexc' = cexc
    /\ AtJoin(s)' => available'[s] = <<>>
    /\ AtJoin(s) /\ ~AtJoin(s)' => Untouched(s) /\ cexc' = cexc
    /\ available[s] = <<>> /\ ~AtJoin(s) /\ pc'[Main] # pc[Main] =>
         /\ ~Reading(s)'
         /\ AtJoin(s)' => Untouched(s) /\ StageExited(s)'
C21_EndOfStream == [][C21_Step]_vars

\* Stage.get is called on the first leaf of the fork after that leaf has
\* ended, between two results of the second leaf.
C21_Witness ==
  /\ ~ordered /\ Len(output_stages) = 2
  /\ AtJoin(output_stages[1])
  /\ Len(yielded) = 3

\* The WorkException envelopes put on tube t so far.
FailsOn(t) == {p \in 1..Len(putlog[t]) : putlog[t][p].kind = "Fail"}
\* A worker of stage s has fetched the WorkException put on the stage's input
\* tube and is no longer putting it.
Forwarded(s) ==
  /\ FailsOn(InputTube(s)) # {}
  /\ \A p \in 1..Len(tube[InputTube(s)]) : tube[InputTube(s)][p].kind # "Fail"
  /\ \A w \in Workers : StageOf(w) = s => wenv[w].kind # "Fail"
Forwarding(s) ==
  \A t \in RangeOf(output_tubes[s]) :
    /\ Cardinality(FailsOn(InputTube(s))) <= 1
    /\ FailsOn(InputTube(s)) # {} =>
         /\ Cardinality(FailsOn(t)) <= 1
         /\ \A p \in FailsOn(t), q \in FailsOn(InputTube(s)) :
              putlog[t][p] = putlog[InputTube(s)][q]
    /\ Forwarded(s) => Cardinality(FailsOn(t)) = 1

\* C22 (Fail forwarding), as claimed: the WorkException put on a stage's
\* input tube is never put on it again, and the stage puts it, and no other,
\* at most once on each of its output tubes, exactly once when the worker
\* that fetched it has done its puts.
C22_FailForwarding == \A s \in Reachable(spawned) : Forwarding(s)

\* The same in a process pool only.
C22_ProcessPool == multi_process => \A s \in Reachable(spawned) : Forwarding(s)

\* C23 (transport errors), as claimed: a worker whose get raised leaves its
\* re-put with the exception enqueued on the stage's input tube under index
\* -1 and a relay count raised by one, and goes on to put the WorkException
\* with index -1, its own stage and no task on its output tubes, then to
\* close_pipes.
C23_Step ==
  \A w \in Workers :
    LET e == wenv[w]
        t == InputTube(StageOf(w)) IN
    wpc[w] = "reput" /\ e.kind = "Exc" /\ wpc'[w] \notin {"reput", "killed"} =>
      /\ e.idx = NoIndex /\ e.cnt >= 1
      /\ putlog'[t] = Append(putlog[t], e)
      /\ wpc'[w] = "put" /\ wafter'[w] = "close"
      /\ wenv'[w] = WorkException(NoIndex, e.exc, StageOf(w), NoItem)
C23_TransportErrors == [][C23_Step]_vars

\* A worker that has left run through the handler for an exception of its
\* get has put the WorkException with index -1 on every output tube.
C23_Emitted ==
  \A w \in Workers :
    wpc[w] \in {"close", "dispose", "done"} /\ whandler[w] =>
      \A t \in RangeOf(output_tubes[StageOf(w)]) :
        \E p \in FailsOn(t) :
          /\ putlog[t][p].idx = NoIndex
          /\ putlog[t][p].stage = StageOf(w)
          /\ putlog[t][p].item = NoItem

\* The results that results_ordered has put in its cache and not yielded.
Pending == {k \in DOMAIN cache : k >= current}

\* C24 (end-of-stream with an empty buffer), as claimed: when the ordered
\* generator of a one-leaf pipeline ends, it holds no result that it has not
\* yielded, in runs where a task gives no result too.
C24_NothingPending ==
  ordered /\ Len(output_stages) = 1 /\ GeneratorEnded => Pending = {}

\* The same in runs where every task gives a result.
C24_AllEmit ==
  ordered /\ Len(output_stages) = 1 /\ GeneratorEnded /\ noneTask = NoFail
    => Pending = {}

\* The stages the root reaches that have no next stage.
LeafStages ==
  {s \in Descendants(next_stages, {Root}, NumStages) \cup {Root} :
     next_stages[s] = <<>>}
NoDuplicates(seq) == \A p, q \in 1..Len(seq) : p # q => seq[p] # seq[q]

\* C25 (leaf discovery), as claimed: over an acyclic graph without repeated
\* links, Pipeline(root) records as output stages exactly the stages without
\* next stage that the root reaches, each of them once.
C25_DistinctLeaves ==
  pc[Main] = "built" /\ ~Cyclic(next_stages) /\ SimpleGraph =>
    /\ RangeOf(output_stages) = LeafStages
    /\ NoDuplicates(output_stages)

\* The recorded output stages are the leaves, some of them perhaps repeated.
C25_Leaves ==
  pc[Main] = "built" /\ ~Cyclic(next_stages) =>
    RangeOf(output_stages) = LeafStages

\* The results the caller has taken from the leaf tube so far.
Taken ==
  LET t == LeafTube(output_stages[1]) IN
  SubSeq(putlog[t], 1, Len(putlog[t]) - Len(tube[t]))
TakenUnder(i) == {p \in 1..Len(Taken) : Taken[p].kind = "Data" /\ Taken[p].idx = i}

\* C26 (yielded indices): results_ordered has yielded one value for each of
\* the indices 0 .. current-1, in that order, each a value that arrived
\* under that index, and between two yields it holds no result for the
\* index current; so no index is skipped and none is yielded twice.
C26_YieldedIndices ==
  ordered /\ Len(output_stages) = 1 =>
    /\ Len(yielded) = current
    /\ \A k \in 1..Len(yielded) :
         \E p \in TakenUnder(k - 1) : Taken[p].val = yielded[k]
    /\ pc[Main] \in {"get", "join", "done"} => TakenUnder(current) = {}

\* The results arrived as 1, 0, 1: index 1 twice, before and after index 0,
\* with different values, and both indices have been yielded.
C26_Witness ==
  /\ ordered /\ pc[Main] = "done"
  /\ Len(Taken) = 4
  /\ Taken[1].idx = 1 /\ Taken[2].idx = 0 /\ Taken[3].idx = 1
  /\ Taken[1].val # Taken[3].val
  /\ Len(yielded) = 2

\* The positions of the Stop envelopes put on tube t so far.
StopPuts(t) == {p \in 1..Len(putlog[t]) : putlog[t][p].kind = "Stop"}

\* C27 (one Stop per output tube): a stage whose pool was built once puts a
\* Stop (putResult puts it with count 0; a worker of the next stage puts it
\* back with a count of 1 or more) at most once on each of its output tubes,
\* however many Stops are put on its input tube, and every Stop put on its
\* input tube has a relay count from 0 to num_worker - 1; a leaf tube gets
\* no Stop with another count than 0.
C27_StopOnce ==
  \A s \in Reachable(spawned) :
    spawned[s] = num_worker[s] =>
      /\ \A t \in RangeOf(output_tubes[s]) :
           /\ Cardinality(EmittedStops(t)) <= 1
           /\ t > NumStages => StopPuts(t) = EmittedStops(t)
      /\ \A p \in StopPuts(InputTube(s)) :
           putlog[InputTube(s)][p].cnt \in 0..(num_worker[s] - 1)

\* Two Stops were put on the input tube of a stage of two workers, each
\* worker has taken one Stop and exited, and one Stop is on the output tube.
C27_Witness ==
  /\ num_worker[Root] = 2
  /\ Cardinality({p \in StopPuts(InputTube(Root)) :
                    putlog[InputTube(Root)][p].cnt = 0}) = 2
  /\ \A w \in Workers : wpc[w] = "done" /\ seenStop[w] = 1
  /\ Cardinality(StopPuts(LeafTube(Root))) = 1
\* C28: in a ring of N OrderedWorkers whose tasks all return a result, at
\* most one worker is between acquiring its previous-input lock and taking a
\* task, task i of the input tube is taken by worker (i mod N) + 1, and the
\* results put on each output tube are those of tasks 0, 1, 2, ... in that
\* order, with nothing put after the Stop.
RingWorkers == {<<Root, k>> : k \in 1..num_worker[Root]}
AllReturnResult ==
  /\ noneTask = NoFail
  /\ ~disable_result[Root]
  /\ failTask = NoFail
InTakeOrder(t) ==
  \A j \in 1..Len(putlog[t]) :
    /\ putlog[t][j].kind \in {"Data", "Stop"}
    /\ (putlog[t][j].kind = "Data" => putlog[t][j].idx = j - 1)
    /\ (putlog[t][j].kind = "Stop" => j = Len(putlog[t]))
C28_RingOrder ==
  (in_lock # <<>> /\ AllReturnResult) =>
    /\ Cardinality({w \in RingWorkers : wpc[w] = "fetch"}) <= 1
    /\ \A w \in RingWorkers :
         (wpc[w] \in {"task", "outacq", "put"} /\ wenv[w].kind = "Data") =>
           RingIndex(w) = (wenv[w].idx % num_worker[Root]) + 1
    /\ \A j \in 1..Len(output_tubes[Root]) : InTakeOrder(output_tubes[Root][j])
C28_Witness ==
  /\ in_lock # <<>>
  /\ AllReturnResult
  /\ num_worker[Root] = 2
  /\ \A w \in RingWorkers : wpc[w] = "done"
  /\ \A j \in 1..Len(output_tubes[Root]) :
       /\ Len(putlog[output_tubes[Root][j]]) = MaxTasks + 1
       /\ putlog[output_tubes[Root][j]][MaxTasks + 1].kind = "Stop"

\* C29: in a ring of N OrderedWorkers given finitely many tasks and then one
\* Stop, with no doTask raising, every worker eventually exits and the Stop
\* is put on every output tube, whether or not the tasks yield results.
RingDone ==
  /\ \A w \in RingWorkers : wpc[w] = "done"
  /\ \A j \in 1..Len(output_tubes[Root]) : Cardinality(EmittedStops(output_tubes[Root][j])) = 1
C29_RingTerminates == (in_lock # <<>> /\ failTask = NoFail) ~> RingDone
\* The same when every task returns a result, and when none is put.
C29_AllReturnResult == (in_lock # <<>> /\ AllReturnResult) ~> RingDone
C29_ResultsDisabled ==
  (in_lock # <<>> /\ failTask = NoFail /\ disable_result[Root]) ~> RingDone

====
